---- MODULE Spec2Model ----
(***************************************************************************)
(* Model of scripts/calculate_savings.py: the catalog loader (load_items), *)
(* the savings calculator (calculate_savings) and the publisher (main).    *)
(*                                                                         *)
(* A source file is named by its position in the listing that glob()       *)
(* returns (1..Len(srcFiles)); both scans of one unchanged directory see   *)
(* the same listing.  JSON values are modelled by their value, not their   *)
(* text: a number is an exact rational n/d (Python computes in binary      *)
(* floating point; the rounding of float division is not modelled).        *)
(***************************************************************************)
EXTENDS Integers, Sequences, FiniteSets, TLC

VARIABLES srcExists, srcFiles, dest, pc, idx, items_map,
          processed_count, calculated_count, stamped, run, destBefore

vars == <<srcExists, srcFiles, dest, pc, idx, items_map,
          processed_count, calculated_count, stamped, run, destBefore>>

\* ------------------------------------------------------------------ bounds
MaxFiles == 3
MaxRuns == 2

\* ------------------------------------------------------------- JSON values
EmptyMap == [x \in {} |-> x]

Abs(n) == IF n < 0 THEN -n ELSE n

RECURSIVE GCD(_, _)
GCD(a, b) == IF b = 0 THEN a ELSE GCD(b, a % b)

\* the rational n/d in lowest terms with a positive denominator (d # 0)
Rat(n, d) ==
    LET g == GCD(Abs(n), Abs(d))
        s == IF d < 0 THEN -1 ELSE 1
    IN  [t |-> "num", n |-> (s * n) \div g, d |-> (s * d) \div g]

Num(n) == [t |-> "num", n |-> n, d |-> 1]
\* a JSON value that is not a number (a string), where a number is read
Str == [t |-> "str", n |-> 0, d |-> 1]

RatAdd(a, b) == Rat(a.n * b.d + b.n * a.d, a.d * b.d)
RatSub(a, b) == Rat(a.n * b.d - b.n * a.d, a.d * b.d)
RatDiv(a, b) == Rat(a.n * b.d, a.d * b.n)
RatLeqZero(a) == a.n <= 0

\* a recipe: a JSON object (ordered ingredient -> quantity entries), JSON
\* null, or a non-empty JSON list / string (truthy, but no mapping)
Entry(i, q) == [ing |-> i, qty |-> q]
RecipeMap(e) == [t |-> "map", e |-> e]
RecipeNull == [t |-> "null", e |-> <<>>]
RecipeOther == [t |-> "other", e |-> <<>>]

\* the content of a file: text json.load rejects, a JSON scalar, a JSON
\* list, or a JSON object with its fields
Garbage == [kind |-> "garbage", obj |-> EmptyMap]
Scalar == [kind |-> "scalar", obj |-> EmptyMap]
List == [kind |-> "list", obj |-> EmptyMap]
Obj(rec) == [kind |-> "object", obj |-> rec]

\* a file's text: a value in some layout ("source": whatever the data set
\* uses; "indent2": what json.dump(indent=2, ensure_ascii=False) emits)
Text(layout, value) == [layout |-> layout, kind |-> value.kind, obj |-> value.obj]

\* results of calculate_savings that are not a number
None == [t |-> "none", n |-> 0, d |-> 1]
Raise == [t |-> "raise", n |-> 0, d |-> 1]

\* ---------------------------------------------------------------- helpers
\* json.load(f): the parsed value, or a JSONDecodeError
ParseFails(text) == text.kind = "garbage"
JsonLoad(text) == [kind |-> text.kind, obj |-> text.obj]

\* json.dump(data, f): the text written for a parsed value
JsonDump(data) == Text("indent2", data)

\* 'id' in data: a TypeError for a value that is no container
IdTestRaises(data) == data.kind = "scalar"
HasId(data) == data.kind = "object" /\ "id" \in DOMAIN data.obj

\* dict.get(key, default)
Get(rec, key, default) == IF key \in DOMAIN rec THEN rec[key] ELSE default

\* items[data['id']] = data
StoreFirst(items, data) ==
    IF data.obj["id"] \in DOMAIN items THEN items
    ELSE (data.obj["id"] :> data.obj) @@ items
Store(items, data) == (data.obj["id"] :> data.obj) @@ items

\* if stack_size <= 0: stack_size = 1
ClampZeroOnly(stack_size) == IF stack_size.n = 0 THEN Num(1) ELSE stack_size
Clamp(stack_size) == IF RatLeqZero(stack_size) THEN Num(1) ELSE stack_size

\* the loop over recipe.items(), from entry k on with the sum so far
RECURSIVE IngredientSkipMissing(_, _, _, _)
IngredientSkipMissing(e, k, ingredient_space, items) ==
    IF k > Len(e) THEN ingredient_space
    ELSE IF e[k].ing \notin DOMAIN items
    THEN IngredientSkipMissing(e, k + 1, ingredient_space, items)
    ELSE LET stack_size == Get(items[e[k].ing], "stackSize", Num(1))
         IN  IF stack_size.t # "num" \/ e[k].qty.t # "num" THEN Raise
             ELSE IngredientSkipMissing(e, k + 1,
                      RatAdd(ingredient_space,
                             RatDiv(e[k].qty, Clamp(stack_size))), items)

RECURSIVE IngredientSpace(_, _, _, _)
IngredientSpace(e, k, ingredient_space, items) ==
    IF k > Len(e) THEN ingredient_space
    ELSE IF e[k].ing \notin DOMAIN items THEN None
    ELSE LET stack_size == Get(items[e[k].ing], "stackSize", Num(1))
         IN  IF stack_size.t # "num" THEN Raise
             ELSE IF e[k].qty.t # "num" THEN Raise
             ELSE IngredientSpace(e, k + 1,
                      RatAdd(ingredient_space,
                             RatDiv(e[k].qty, Clamp(stack_size))), items)

\* craft_quantity / target_stack_size
TargetSpace(item) ==
    LET craft_quantity == Get(item, "craftQuantity", Num(1))
        target_stack_size == Get(item, "stackSize", Num(1))
    IN  IF target_stack_size.t # "num" THEN Raise
        ELSE IF craft_quantity.t # "num" THEN Raise
        ELSE RatDiv(craft_quantity, Clamp(target_stack_size))

\* if not recipe
NeverFalsy(recipe) == recipe.t = "null"
Falsy(recipe) == recipe.t = "null" \/ (recipe.t = "map" /\ Len(recipe.e) = 0)

calculate_savings(item, items) ==
    IF "recipe" \notin DOMAIN item THEN None
    ELSE IF Falsy(item["recipe"]) THEN None
    ELSE IF item["recipe"].t # "map" THEN Raise
    ELSE LET ingredient_space == IngredientSpace(item["recipe"].e, 1, Num(0), items)
         IN  IF ingredient_space.t # "num" THEN ingredient_space
             ELSE LET target_space == TargetSpace(item)
                  IN  IF target_space.t # "num" THEN Raise
                      ELSE RatSub(ingredient_space, target_space)

\* what main computes for one parsed file (lines 97-98)
Savings(data, items) ==
    IF IdTestRaises(data) THEN Raise
    ELSE IF HasId(data) THEN calculate_savings(data.obj, items)
    ELSE None

\* rec[key] = value
SetField(rec, key, value) ==
    [k \in DOMAIN rec \cup {key} |-> IF k = key THEN value ELSE rec[k]]

\* data['stashSavings'] = savings
SetStash(rec, savings) == SetField(rec, "stashSavings", savings)

\* the value main dumps for one parsed file (lines 97-106)
OutputFromCatalog(data, items) ==
    IF HasId(data) /\ data.obj["id"] \in DOMAIN items
    THEN LET s == Savings(data, items)
         IN  Obj(IF s.t = "num" THEN SetStash(items[data.obj["id"]], s)
                 ELSE items[data.obj["id"]])
    ELSE data
Output(data, items) ==
    IF Savings(data, items).t = "num"
    THEN Obj(SetStash(data.obj, Savings(data, items)))
    ELSE data

\* calculated_count += 1, inside `if savings is not None`
CountAlways(count, savings) == count + 1
CountCalculated(count, savings) ==
    IF savings.t = "num" THEN count + 1 ELSE count

\* shutil.rmtree when the directory exists, then os.makedirs
EmptyDir == [exists |-> TRUE, files |-> EmptyMap]
NoDir == [exists |-> FALSE, files |-> EmptyMap]
Rmtree(d) == NoDir
Makedirs(d) == EmptyDir
ResetKeepFiles(d) == IF d.exists THEN d ELSE Makedirs(d)
ResetNoMakedirs(d) == IF d.exists THEN Rmtree(d) ELSE Makedirs(d)
ResetDir(d) == Makedirs(IF d.exists THEN Rmtree(d) ELSE d)

\* open(dest_path, 'w'); json.dump
WriteFile(d, name, text) ==
    [exists |-> TRUE,
     files |-> [n \in DOMAIN d.files \cup {name} |->
                   IF n = name THEN text ELSE d.files[n]]]

\* ------------------------------------------------------------ source data
\* the parsed value of source file f
Data(f) == JsonLoad(srcFiles[f])
Files == 1 .. Len(srcFiles)
Parsed == {f \in Files : ~ParseFails(srcFiles[f])}
DestNames == DOMAIN dest.files

StashOld == Num(7)

\* raw materials; two records carry the id A
A5 == Obj([id |-> "A", stackSize |-> Num(5)])
A0 == Obj([id |-> "A", stackSize |-> Num(0), stashSavings |-> StashOld])
B5 == Obj([id |-> "B", stackSize |-> Num(5)])
BStr == Obj([id |-> "B", stackSize |-> Str])
\* craftable items
NoId == Obj([recipe |-> RecipeMap(<<Entry("A", Num(10))>>), stackSize |-> Num(5)])
CAB == Obj([id |-> "C", recipe |-> RecipeMap(<<Entry("A", Num(10)), Entry("B", Num(5))>>),
            craftQuantity |-> Num(1), stackSize |-> Num(1)])
CBA == Obj([id |-> "C", recipe |-> RecipeMap(<<Entry("B", Num(5)), Entry("A", Num(10))>>),
            stashSavings |-> StashOld])
CA == Obj([id |-> "C", recipe |-> RecipeMap(<<Entry("A", Num(4))>>),
           craftQuantity |-> Num(1), stashSavings |-> StashOld])
CEmpty == Obj([id |-> "C", recipe |-> RecipeMap(<<>>), craftQuantity |-> Num(2)])

Contents ==
    {Text("source", v) : v \in {Garbage, Scalar, List, A5, A0, B5, BStr, NoId,
                                 CAB, CBA, CA, CEmpty}}

RECURSIVE SeqsUpTo(_, _)
SeqsUpTo(S, n) ==
    IF n = 0 THEN {<<>>}
    ELSE LET shorter == SeqsUpTo(S, n - 1)
         IN  shorter \cup {Append(q, x) : q \in {r \in shorter : Len(r) = n - 1}, x \in S}

\* what the destination may be before the first run: no directory, or a
\* directory left by an earlier run with a file no source file is named
\* like (0) and a file named like the first source file
OldText == JsonDump(Obj([id |-> "C", stashSavings |-> StashOld]))
DestStates ==
    {NoDir, [exists |-> TRUE, files |-> (0 :> OldText @@ 1 :> OldText)]}

\* ------------------------------------------------------------------ state
Start(files) ==
    /\ srcExists \in BOOLEAN
    /\ srcFiles \in (IF srcExists THEN files ELSE {<<>>})
    /\ dest \in DestStates
    /\ pc = "start"
    /\ idx = 0
    /\ items_map = EmptyMap
    /\ processed_count = 0
    /\ calculated_count = 0
    /\ stamped = {}
    /\ run = 1
    /\ destBefore = dest

Init == Start(SeqsUpTo(Contents, MaxFiles))

\* a directory of two raw materials and one craftable item, over all
\* combinations of their numeric fields; the second raw material may be
\* missing from the catalog (no id, unreadable)
StackSizes == {Num(-1), Num(0), Num(1), Num(5), Num(8)}
Quantities == {Num(4), Num(10), Str}
WithStack(rec) == {rec} \cup {SetField(rec, "stackSize", s) : s \in StackSizes}
RawA == {Text("source", Obj(r)) : r \in WithStack([id |-> "A"])}
RawB == {Text("source", Obj(r)) : r \in WithStack([id |-> "B"]) \cup {[stackSize |-> Str]}}
           \cup {Text("source", Garbage), Text("source", Scalar)}
CalcRecipes ==
    {RecipeMap(<<>>), RecipeNull, RecipeOther}
      \cup {RecipeMap(<<Entry("A", q)>>) : q \in Quantities}
      \cup {RecipeMap(<<Entry("A", q), Entry("B", Num(5))>>) : q \in Quantities}
      \cup {RecipeMap(<<Entry("B", Num(5)), Entry("A", q)>>) : q \in Quantities}
CraftQuantities == {Num(1), Num(3), Str}
WithCraft(rec) == {rec} \cup {SetField(rec, "craftQuantity", c) : c \in CraftQuantities}
Crafted ==
    {Text("source", Obj(r)) :
        r \in UNION {WithCraft(w) :
                 w \in UNION {WithStack(SetField([id |-> "C"], "recipe", rc)) :
                                rc \in CalcRecipes}}}
CalcSources == {<<a, b, c>> : a \in RawA, b \in RawB, c \in Crafted}

InitCalc == Start(CalcSources)

\* ---------------------------------------------------------------- actions
\* main, lines 67-70
ResetDest ==
    /\ pc = "start"
    /\ dest' = ResetDir(dest)
    /\ pc' = "load"
    /\ UNCHANGED <<srcExists, srcFiles, idx, items_map, processed_count,
                   calculated_count, stamped, run, destBefore>>

\* load_items, lines 11-14: the source directory does not exist
LoadMissing ==
    /\ pc = "load"
    /\ ~srcExists
    /\ items_map' = EmptyMap
    /\ pc' = "loaded"
    /\ UNCHANGED <<srcExists, srcFiles, dest, idx, processed_count,
                   calculated_count, stamped, run, destBefore>>

\* load_items, lines 11 and 16
LoadGlob ==
    /\ pc = "load"
    /\ srcExists
    /\ items_map' = EmptyMap
    /\ idx' = 1
    /\ pc' = "loading"
    /\ UNCHANGED <<srcExists, srcFiles, dest, processed_count,
                   calculated_count, stamped, run, destBefore>>

\* load_items, lines 25-26: json.load raises JSONDecodeError
LoadDecodeError ==
    /\ pc = "loading"
    /\ idx <= Len(srcFiles)
    /\ ParseFails(srcFiles[idx])
    /\ idx' = idx + 1
    /\ UNCHANGED <<srcExists, srcFiles, dest, pc, items_map, processed_count,
                   calculated_count, stamped, run, destBefore>>

\* load_items, line 21: 'id' in data raises TypeError, caught nowhere
LoadRaise ==
    /\ pc = "loading"
    /\ idx <= Len(srcFiles)
    /\ ~ParseFails(srcFiles[idx])
    /\ IdTestRaises(Data(idx))
    /\ pc' = "aborted"
    /\ UNCHANGED <<srcExists, srcFiles, dest, idx, items_map, processed_count,
                   calculated_count, stamped, run, destBefore>>

\* load_items, lines 21-22
LoadStore ==
    /\ pc = "loading"
    /\ idx <= Len(srcFiles)
    /\ ~ParseFails(srcFiles[idx])
    /\ ~IdTestRaises(Data(idx))
    /\ HasId(Data(idx))
    /\ items_map' = Store(items_map, Data(idx))
    /\ idx' = idx + 1
    /\ UNCHANGED <<srcExists, srcFiles, dest, pc, processed_count,
                   calculated_count, stamped, run, destBefore>>

\* load_items, lines 23-24
LoadNoId ==
    /\ pc = "loading"
    /\ idx <= Len(srcFiles)
    /\ ~ParseFails(srcFiles[idx])
    /\ ~IdTestRaises(Data(idx))
    /\ ~HasId(Data(idx))
    /\ idx' = idx + 1
    /\ UNCHANGED <<srcExists, srcFiles, dest, pc, items_map, processed_count,
                   calculated_count, stamped, run, destBefore>>

\* load_items, line 27
LoadReturn ==
    /\ pc = "loading"
    /\ idx > Len(srcFiles)
    /\ idx' = 0
    /\ pc' = "loaded"
    /\ UNCHANGED <<srcExists, srcFiles, dest, items_map, processed_count,
                   calculated_count, stamped, run, destBefore>>

\* main, lines 77-79
ExitNoItems ==
    /\ pc = "loaded"
    /\ DOMAIN items_map = {}
    /\ pc' = "exited"
    /\ UNCHANGED <<srcExists, srcFiles, dest, idx, items_map, processed_count,
                   calculated_count, stamped, run, destBefore>>

\* main, lines 82-86
PublishGlob ==
    /\ pc = "loaded"
    /\ DOMAIN items_map # {}
    /\ processed_count' = 0
    /\ calculated_count' = 0
    /\ stamped' = {}
    /\ idx' = 1
    /\ pc' = "publish"
    /\ UNCHANGED <<srcExists, srcFiles, dest, items_map, run, destBefore>>

\* main, lines 89-94
PublishSkip ==
    /\ pc = "publish"
    /\ idx <= Len(srcFiles)
    /\ ParseFails(srcFiles[idx])
    /\ idx' = idx + 1
    /\ UNCHANGED <<srcExists, srcFiles, dest, pc, items_map, processed_count,
                   calculated_count, stamped, run, destBefore>>

\* main, lines 97-106: an exception of calculate_savings (or of open on a
\* destination directory that is not there) leaves main
PublishRaise ==
    /\ pc = "publish"
    /\ idx <= Len(srcFiles)
    /\ ~ParseFails(srcFiles[idx])
    /\ Savings(Data(idx), items_map).t = "raise" \/ ~dest.exists
    /\ calculated_count' =
          IF Savings(Data(idx), items_map).t = "raise" THEN calculated_count
          ELSE CountCalculated(calculated_count, Savings(Data(idx), items_map))
    /\ pc' = "aborted"
    /\ UNCHANGED <<srcExists, srcFiles, dest, idx, items_map, processed_count,
                   stamped, run, destBefore>>

\* main, lines 96-108
PublishWrite ==
    /\ pc = "publish"
    /\ idx <= Len(srcFiles)
    /\ ~ParseFails(srcFiles[idx])
    /\ Savings(Data(idx), items_map).t # "raise"
    /\ dest.exists
    /\ calculated_count' = CountCalculated(calculated_count, Savings(Data(idx), items_map))
    /\ stamped' = IF Savings(Data(idx), items_map).t = "num"
                  THEN stamped \cup {idx} ELSE stamped
    /\ dest' = WriteFile(dest, idx, JsonDump(Output(Data(idx), items_map)))
    /\ processed_count' = processed_count + 1
    /\ idx' = idx + 1
    /\ UNCHANGED <<srcExists, srcFiles, pc, items_map, run, destBefore>>

\* main, lines 110-111
Summary ==
    /\ pc = "publish"
    /\ idx > Len(srcFiles)
    /\ idx' = 0
    /\ pc' = "done"
    /\ UNCHANGED <<srcExists, srcFiles, dest, items_map, processed_count,
                   calculated_count, stamped, run, destBefore>>

\* lines 113-114: the script is invoked again on the unchanged source
Ended == pc \in {"done", "exited", "aborted"}
Rerun ==
    /\ Ended
    /\ run < MaxRuns
    /\ run' = run + 1
    /\ destBefore' = dest
    /\ pc' = "start"
    /\ idx' = 0
    /\ items_map' = EmptyMap
    /\ processed_count' = 0
    /\ calculated_count' = 0
    /\ stamped' = {}
    /\ UNCHANGED <<srcExists, srcFiles, dest>>

Next ==
    \/ ResetDest
    \/ LoadMissing
    \/ LoadGlob
    \/ LoadDecodeError
    \/ LoadRaise
    \/ LoadStore
    \/ LoadNoId
    \/ LoadReturn
    \/ ExitNoItems
    \/ PublishGlob
    \/ PublishSkip
    \/ PublishRaise
    \/ PublishWrite
    \/ Summary
    \/ Rerun

Spec == Init /\ [][Next]_vars
SpecCalc == InitCalc /\ [][Next]_vars

\* ------------------------------------------------------------- properties
\* the record main wrote for source file f
DestData(f) == JsonLoad(dest.files[f])
IsObject(f) == f \in Parsed /\ Data(f).kind = "object"
HasStash(rec) == "stashSavings" \in DOMAIN rec
\* the catalog is complete: load_items has returned
Loaded == pc \in {"loaded", "publish", "done", "exited"}
\* the destination holds only what this run wrote
AfterReset == pc # "start"
\* main adds no stashSavings to the record of f: the field is there only
\* when the source record has it, with the source's value
StashAsInSource(f) ==
    /\ HasStash(DestData(f).obj) <=> HasStash(Data(f).obj)
    /\ HasStash(DestData(f).obj) => DestData(f).obj["stashSavings"] = Data(f).obj["stashSavings"]

\* C1 as stated, for the runs in which main returns: after the run the
\* destination holds exactly the source files that parsed.
C1_DestEqualsParsedAfterAnyRun ==
    pc \in {"done", "exited"} => (dest.exists /\ DestNames = Parsed)

\* C1 (amended): a run that reaches the summary leaves exactly the parsed
\* source files in the destination; a run that stops on an empty catalog
\* leaves it empty; from the reset on, every run (also one ended by an
\* exception) holds only files that parsed in it, so no stale file survives.
C1_DestIsParsed ==
    /\ pc = "done" => (dest.exists /\ DestNames = Parsed)
    /\ pc = "exited" => (dest.exists /\ DestNames = {})
    /\ AfterReset => (dest.exists /\ DestNames \subseteq Parsed)

C1_Witness ==
    /\ pc = "done"
    /\ run = 1
    /\ DOMAIN destBefore.files # {}
    /\ Parsed # {}
    /\ Parsed # Files
    /\ DestNames = Parsed

\* an ingredient of the recipe of f is no key of the catalog
MissingIngredient(f) ==
    /\ IsObject(f)
    /\ "recipe" \in DOMAIN Data(f).obj
    /\ Data(f).obj["recipe"].t = "map"
    /\ \E k \in 1 .. Len(Data(f).obj["recipe"].e) :
          Data(f).obj["recipe"].e[k].ing \notin DOMAIN items_map
\* the entries before the first missing ingredient are numbers divided by
\* numbers
NumericUpToMissing(f) ==
    LET e == Data(f).obj["recipe"].e
    IN  \A k \in 1 .. Len(e) :
          (\A j \in 1 .. k : e[j].ing \in DOMAIN items_map) =>
             /\ e[k].qty.t = "num"
             /\ Get(items_map[e[k].ing], "stackSize", Num(1)).t = "num"

\* C2 as stated, for the items main has written: an item with a missing
\* ingredient gets None from calculate_savings and its written record has
\* no stashSavings field.
C2_MissingIngredientNoStash ==
    AfterReset => \A f \in DestNames : (MissingIngredient(f) /\ HasId(Data(f))) =>
        /\ calculate_savings(Data(f).obj, items_map) = None
        /\ ~HasStash(DestData(f).obj)

\* C2 (amended): for an item with a missing ingredient calculate_savings
\* never returns a number (None, or an exception when an entry before the
\* missing one is not numeric), and main adds no stashSavings to it.
C2_MissingIngredientNotApplicable ==
    Loaded => \A f \in Files : MissingIngredient(f) =>
        /\ calculate_savings(Data(f).obj, items_map).t # "num"
        /\ (NumericUpToMissing(f) => calculate_savings(Data(f).obj, items_map) = None)
        /\ (f \in DestNames => StashAsInSource(f))

C2_Witness ==
    /\ pc = "done"
    /\ \E f \in DestNames :
          /\ MissingIngredient(f)
          /\ HasId(Data(f))
          /\ Len(Data(f).obj["recipe"].e) = 2
          /\ Data(f).obj["recipe"].e[1].ing \in DOMAIN items_map
          /\ ~HasStash(DestData(f).obj)
    /\ \E f \in DestNames :
          /\ MissingIngredient(f)
          /\ HasId(Data(f))
          /\ Data(f).obj["recipe"].e[1].ing \notin DOMAIN items_map
          /\ HasStash(DestData(f).obj)

\* the recipe of f is absent or empty
NoRecipe(f) ==
    /\ IsObject(f)
    /\ \/ "recipe" \notin DOMAIN Data(f).obj
       \/ Data(f).obj["recipe"] = RecipeMap(<<>>)

\* C3 as stated: a record without recipe is written without stashSavings.
C3_NoRecipeNoStash ==
    AfterReset => \A f \in DestNames : NoRecipe(f) => ~HasStash(DestData(f).obj)

\* C3 (amended): for a record without recipe calculate_savings returns None
\* and main adds no stashSavings: the written record has the field only when
\* the source record has it.
C3_NoRecipeNoStashAdded ==
    AfterReset => \A f \in DestNames : NoRecipe(f) =>
        /\ calculate_savings(Data(f).obj, items_map) = None
        /\ StashAsInSource(f)

C3_Witness ==
    /\ pc = "done"
    /\ \E f \in DestNames :
          NoRecipe(f) /\ HasId(Data(f)) /\ "recipe" \in DOMAIN Data(f).obj
             /\ ~HasStash(DestData(f).obj)
    /\ \E f \in DestNames :
          NoRecipe(f) /\ HasId(Data(f)) /\ "recipe" \notin DOMAIN Data(f).obj
             /\ HasStash(DestData(f).obj)

\* eff(s): 1 when the stack size is absent or <= 0, else the stack size
Eff(rec) ==
    IF "stackSize" \notin DOMAIN rec THEN 1
    ELSE IF rec["stackSize"].n <= 0 THEN 1
    ELSE rec["stackSize"].n

\* the product of the effective stack sizes of the ingredients from k on
RECURSIVE StackProduct(_, _, _)
StackProduct(e, k, items) ==
    IF k > Len(e) THEN 1 ELSE Eff(items[e[k].ing]) * StackProduct(e, k + 1, items)

\* sum of quantity / eff(ingredient), in units of 1/D
RECURSIVE ScaledSum(_, _, _, _)
ScaledSum(e, k, items, D) ==
    IF k > Len(e) THEN 0
    ELSE e[k].qty.n * (D \div Eff(items[e[k].ing])) + ScaledSum(e, k + 1, items, D)

\* (sum of quantity / eff(ingredient)) - craftQuantity / eff(item), over
\* the common denominator D
ExpectedSavings(item, items) ==
    LET e == item["recipe"].e
        D == StackProduct(e, 1, items) * Eff(item)
        cq == IF "craftQuantity" \in DOMAIN item THEN item["craftQuantity"].n ELSE 1
    IN  Rat(ScaledSum(e, 1, items, D) - cq * (D \div Eff(item)), D)

\* f has a non-empty recipe whose ingredients are all in the catalog, and
\* the numbers the formula reads are integers
Applicable(f) ==
    /\ IsObject(f)
    /\ "recipe" \in DOMAIN Data(f).obj
    /\ Data(f).obj["recipe"].t = "map"
    /\ Len(Data(f).obj["recipe"].e) > 0
    /\ \A k \in 1 .. Len(Data(f).obj["recipe"].e) :
          /\ Data(f).obj["recipe"].e[k].ing \in DOMAIN items_map
          /\ Data(f).obj["recipe"].e[k].qty.t = "num"
          /\ Get(items_map[Data(f).obj["recipe"].e[k].ing], "stackSize", Num(1)).t = "num"
    /\ Get(Data(f).obj, "stackSize", Num(1)).t = "num"
    /\ Get(Data(f).obj, "craftQuantity", Num(1)).t = "num"

\* C4: for an item with a non-empty recipe whose ingredients all resolve,
\* calculate_savings returns sum(quantity / eff(ingredient.stackSize)) -
\* craftQuantity / eff(item.stackSize), unrounded and unclamped; a stackSize
\* of 0 gives what a stackSize of 1 gives; main writes that value.
C4_SavingsFormula ==
    Loaded => \A f \in Files : Applicable(f) =>
        /\ calculate_savings(Data(f).obj, items_map) = ExpectedSavings(Data(f).obj, items_map)
        /\ calculate_savings(SetField(Data(f).obj, "stackSize", Num(0)), items_map)
             = calculate_savings(SetField(Data(f).obj, "stackSize", Num(1)), items_map)
        /\ (f \in DestNames /\ HasId(Data(f))) =>
               /\ HasStash(DestData(f).obj)
               /\ DestData(f).obj["stashSavings"] = ExpectedSavings(Data(f).obj, items_map)

\* recipe {A: 10, B: 5}, both stack sizes 5, craftQuantity 1, own stackSize 1
C4_Witness ==
    /\ pc = "done"
    /\ \E f \in DestNames :
          /\ Applicable(f)
          /\ Data(f).obj["recipe"].e = <<Entry("A", Num(10)), Entry("B", Num(5))>>
          /\ Get(items_map["A"], "stackSize", Num(1)) = Num(5)
          /\ Get(items_map["B"], "stackSize", Num(1)) = Num(5)
          /\ Get(Data(f).obj, "craftQuantity", Num(0)) = Num(1)
          /\ Get(Data(f).obj, "stackSize", Num(0)) = Num(1)
          /\ DestData(f).obj["stashSavings"] = Num(2)

\* C5: a written record has every field of the source record other than
\* stashSavings, unchanged, and no field besides those and stashSavings.
C5_FieldsPreserved ==
    AfterReset => \A f \in DestNames :
        /\ DestData(f).kind = Data(f).kind
        /\ \A k \in DOMAIN Data(f).obj \ {"stashSavings"} :
              k \in DOMAIN DestData(f).obj /\ DestData(f).obj[k] = Data(f).obj[k]
        /\ DOMAIN DestData(f).obj \subseteq DOMAIN Data(f).obj \cup {"stashSavings"}

\* a stamped record whose id another, different record carries too
C5_Witness ==
    /\ pc = "done"
    /\ \E f \in DestNames, g \in DestNames :
          /\ f # g
          /\ HasId(Data(f)) /\ HasId(Data(g))
          /\ Data(f).obj["id"] = Data(g).obj["id"]
          /\ DOMAIN Data(f).obj # DOMAIN Data(g).obj
          /\ f \in stamped
          /\ HasStash(Data(f).obj)
          /\ DestData(f).obj["stashSavings"] # Data(f).obj["stashSavings"]

\* C6: a second run on the unchanged source leaves the destination as the
\* first run left it.
C6_Idempotent ==
    (run >= 2 /\ Ended) => dest = destBefore

C6_Witness ==
    /\ run = 2
    /\ pc = "done"
    /\ stamped # {}
    /\ dest = destBefore
    /\ \E f \in DestNames, g \in DestNames :
          f # g /\ HasId(Data(f)) /\ HasId(Data(g)) /\ Data(f).obj["id"] = Data(g).obj["id"]

\* C7: no content of a single file aborts the run; the run stops early
\* only for a missing source directory or an empty catalog.
C7_FileErrorsNeverAbort ==
    /\ pc # "aborted"
    /\ pc = "exited" => DOMAIN items_map = {}

\* C8: a run that finds no source directory leaves the destination
\* directory, its existence and its contents, as it was before the run.
C8_MissingSourceKeepsDest ==
    (~srcExists /\ Ended) => dest = destBefore

\* the last file in scan order that carries the id
LastWith(id) ==
    CHOOSE f \in Parsed :
        /\ HasId(Data(f)) /\ Data(f).obj["id"] = id
        /\ \A g \in Parsed : (HasId(Data(g)) /\ Data(g).obj["id"] = id) => g <= f
ValidIds == {Data(f).obj["id"] : f \in {g \in Parsed : HasId(Data(g))}}

\* C9: when load_items returns, the catalog has exactly one entry per
\* distinct id of a parsed record, as many entries as distinct ids, and the
\* entry of an id is the record of the file scanned last with it.
C9_CatalogLastWins ==
    pc = "loaded" =>
        /\ DOMAIN items_map = ValidIds
        /\ Cardinality(DOMAIN items_map) = Cardinality(ValidIds)
        /\ \A id \in ValidIds : items_map[id] = Data(LastWith(id)).obj

C9_Witness ==
    /\ pc = "loaded"
    /\ \E h \in Files : h \notin Parsed \/ ~HasId(Data(h))
    /\ \E f \in Parsed, g \in Parsed :
          /\ f < g
          /\ HasId(Data(f)) /\ HasId(Data(g))
          /\ Data(f).obj["id"] = Data(g).obj["id"]
          /\ Data(f).obj # Data(g).obj
          /\ items_map[Data(f).obj["id"]] = Data(g).obj

\* C10: at the summary processed_count is the number of files written and
\* calculated_count the number of written files whose stashSavings was set
\* from a numeric result; calculated <= processed <= number of source files.
C10_Counters ==
    pc = "done" =>
        /\ processed_count = Cardinality(DestNames)
        /\ stamped \subseteq DestNames
        /\ calculated_count = Cardinality(stamped)
        /\ \A f \in stamped :
              /\ HasStash(DestData(f).obj)
              /\ DestData(f).obj["stashSavings"] = calculate_savings(Data(f).obj, items_map)
        /\ calculated_count <= processed_count
        /\ processed_count <= Len(srcFiles)

C10_Witness ==
    /\ pc = "done"
    /\ 0 < calculated_count
    /\ calculated_count < processed_count
    /\ processed_count < Len(srcFiles)
====
